---- MODULE Spec2Model ----
(***************************************************************************)
(* Cascading-extinction engine of src/src/cascading_extinction.py          *)
(* (class ExtincaoEmCascata) as a state machine.                           *)
(*                                                                         *)
(* An igraph Graph is modelled as a record                                 *)
(*   [named, vs, es]                                                       *)
(* vs is the vertex sequence (a vertex's igraph index is its position      *)
(* minus one), each entry the handle of a physical vertex; when the graph  *)
(* carries the 'name' attribute (named = TRUE) the handle is also the      *)
(* vertex's name.  es is the set of directed edges (prey, predator)        *)
(* between handles.  delete_vertices renumbers every higher index.         *)
(*                                                                         *)
(* Python values used as dictionary keys and identities are strings:       *)
(* a name "A", the text of an index str(2) = "2", and the integer 2        *)
(* itself, written "#2" so that it stays different from "2" as it is in    *)
(* Python.                                                                 *)
(***************************************************************************)
EXTENDS Integers, Sequences, FiniteSets, TLC

VARIABLES grafo_original, grafo, especies_basais, historico_extincoes,
          passo_atual, estados_nos, historico_estados, ultimo, inicial,
          sims_temp, concluidos, limpeza

campos == <<grafo_original, grafo, especies_basais, historico_extincoes,
            passo_atual, estados_nos, historico_estados>>
vars == <<grafo_original, grafo, especies_basais, historico_extincoes,
          passo_atual, estados_nos, historico_estados, ultimo, inicial,
          sims_temp, concluidos, limpeza>>

\* ---------------------------------------------------------------- bounds
Names == <<"A", "B", "C", "D">>
MaxEdges == 3
MaxPasso == 2
MaxReq == 2
MaxArestas == 4

\* ------------------------------------------------------- python values
StrIdx == <<"0", "1", "2", "3", "4", "5">>
IntIdx == <<"#0", "#1", "#2", "#3", "#4", "#5">>
str(i) == StrIdx[i + 1]
int_key(i) == IntIdx[i + 1]

\* d.get(k)
dict_get(d, k) == IF k \in DOMAIN d THEN d[k] ELSE "None"
\* d.get(k, 0)
dict_get_int(d, k) == IF k \in DOMAIN d THEN d[k] ELSE 0
dict_set(d, k, v) == [x \in (DOMAIN d) \cup {k} |-> IF x = k THEN v ELSE d[x]]

\* ------------------------------------------------------------- igraph
vcount(g) == Len(g.vs)
indices(g) == 0 .. (vcount(g) - 1)
indegree(g, i) == Cardinality({e \in g.es : e[2] = g.vs[i + 1]})
degree(g, i) ==
    Cardinality({e \in g.es : e[2] = g.vs[i + 1]})
    + Cardinality({e \in g.es : e[1] = g.vs[i + 1]})
\* neighbors(idx, mode='out'): the predators only
neighbors_saida(g, i) ==
    {j \in indices(g) : <<g.vs[i + 1], g.vs[j + 1]>> \in g.es}
\* neighbors(idx, mode='all')
neighbors(g, i) ==
    {j \in indices(g) : <<g.vs[i + 1], g.vs[j + 1]>> \in g.es
                        \/ <<g.vs[j + 1], g.vs[i + 1]>> \in g.es}
delete_vertices(g, i) ==
    [named |-> g.named,
     vs |-> [k \in 1 .. (vcount(g) - 1) |->
                IF k < i + 1 THEN g.vs[k] ELSE g.vs[k + 1]],
     es |-> {e \in g.es : e[1] # g.vs[i + 1] /\ e[2] # g.vs[i + 1]}]
\* vs.find(name=...): the index of the vertex carrying the name, -1 when the
\* lookup raises ValueError (no such name, or no 'name' attribute at all)
find_name(g, nome) ==
    IF g.named /\ \E i \in indices(g) : g.vs[i + 1] = nome
    THEN CHOOSE i \in indices(g) : g.vs[i + 1] = nome
    ELSE -1
\* v['name'] if 'name' in v.attributes() else str(v.index)
nome_de(g, i) == IF g.named THEN g.vs[i + 1] ELSE str(i)

\* sorted(lista, reverse=True)
RECURSIVE sorted_reverse(_)
sorted_reverse(s) ==
    IF s = <<>> THEN <<>>
    ELSE LET p == CHOOSE p \in 1 .. Len(s) :
                    /\ \A q \in 1 .. Len(s) : s[q] <= s[p]
                    /\ \A q \in 1 .. (p - 1) : s[q] < s[p]
             resto == [k \in 1 .. (Len(s) - 1) |->
                          IF k < p THEN s[k] ELSE s[k + 1]]
         IN <<s[p]>> \o sorted_reverse(resto)

\* for idx in sorted(..., reverse=True): self.grafo.delete_vertices(idx)
\* igraph raises on an index that is no longer a vertex; the deletions made
\* before it stay.
RECURSIVE apagar_lote(_, _)
apagar_lote(g, idxs) ==
    IF idxs = <<>> THEN [g |-> g, ok |-> TRUE]
    ELSE IF Head(idxs) < 0 \/ Head(idxs) >= vcount(g)
         THEN [g |-> g, ok |-> FALSE]
         ELSE apagar_lote(delete_vertices(g, Head(idxs)), Tail(idxs))

\* ------------------------------------------------ ExtincaoEmCascata
NenhumEvento ==
    [passo |-> 0, extincao_primaria |-> <<>>, primaria_lista |-> FALSE,
     extincoes_secundarias |-> <<>>, extincoes_totais |-> 0,
     extintos |-> <<>>, restantes |-> 0]

\* the set of names of vertices with in-degree 0 (the loop of __init__/reset)
basais_de(g) == {nome_de(g, i) : i \in {j \in indices(g) : indegree(g, j) = 0}}
\* the all-'vivo' table keyed by every vertex's name
todos_vivos(g) == [n \in {nome_de(g, i) : i \in indices(g)} |-> "vivo"]

\* __init__(grafo): keeps the caller's graph as the original and works on a copy
construtor(g) ==
    [grafo_original |-> g,
     grafo |-> g,
     especies_basais |-> basais_de(g),
     historico_extincoes |-> <<>>,
     passo_atual |-> 0,
     estados_nos |-> todos_vivos(g),
     historico_estados |-> <<>>]

\* a reset that forgets to clear historico_estados
reset_sem_historico_estados(self) ==
    [grafo_original |-> self.grafo_original,
     grafo |-> self.grafo_original,
     especies_basais |-> basais_de(self.grafo_original),
     historico_extincoes |-> <<>>,
     passo_atual |-> 0,
     estados_nos |-> todos_vivos(self.grafo_original),
     historico_estados |-> self.historico_estados]

\* a reset that takes the working graph as the new original
reset_do_grafo_de_trabalho(self) == construtor(self.grafo)
\* a reset that forgets passo_atual = 0
reset_sem_passo(self) ==
    [grafo_original |-> self.grafo_original,
     grafo |-> self.grafo_original,
     especies_basais |-> basais_de(self.grafo_original),
     historico_extincoes |-> <<>>,
     passo_atual |-> self.passo_atual,
     estados_nos |-> todos_vivos(self.grafo_original),
     historico_estados |-> <<>>]

\* reset()
reset(self) ==
    [grafo_original |-> self.grafo_original,
     grafo |-> self.grafo_original,
     especies_basais |-> basais_de(self.grafo_original),
     historico_extincoes |-> <<>>,
     passo_atual |-> 0,
     estados_nos |-> todos_vivos(self.grafo_original),
     historico_estados |-> <<>>]

\* historico_estados.append(estados_nos) with no copy: every entry of the list
\* is the one table object, so every entry shows the table as it is now
append_sem_copia(historico, estados) ==
    [i \in 1 .. Len(historico) + 1 |-> estados]
\* historico_estados.append(copy.deepcopy(estados_nos))
append_deepcopy(historico, estados) == Append(historico, estados)

\* vizinhos_afetados.add(nome_vizinho) for every neighbour of every idx
vizinhos_de(g, idxs) ==
    {nome_de(g, j) : j \in UNION {neighbors(g, idxs[k]) : k \in 1 .. Len(idxs)}}

\* One scan "for v in self.grafo.vs" for new secondary extinctions, from
\* index i on.  so_vivos is the extra estados_nos.get(nome) == 'vivo' test
\* that only the cascade loop of remover_grupo_simultaneo makes.
RECURSIVE varredura(_, _, _, _, _, _, _)
varredura(g, basais, i, estados, secundarios, a_remover, so_vivos) ==
    IF i >= vcount(g)
    THEN [estados |-> estados, secundarios |-> secundarios, a_remover |-> a_remover]
    ELSE LET nome_especie == nome_de(g, i)
         IN IF /\ nome_especie \notin basais
               /\ (so_vivos => dict_get(estados, nome_especie) = "vivo")
               /\ indegree(g, i) = 0
            THEN varredura(g, basais, i + 1,
                           dict_set(estados, nome_especie, "extinto_secundario"),
                           Append(secundarios, nome_especie),
                           Append(a_remover, i), so_vivos)
            ELSE varredura(g, basais, i + 1, estados, secundarios, a_remover,
                           so_vivos)

\* the scan of remove_especie (no status test)
varredura_especie(g, basais, estados, secundarios) ==
    varredura(g, basais, 0, estados, secundarios, <<>>, FALSE)
\* the first scan of remover_grupo_simultaneo, after the primaries are deleted
sem_primeira_varredura(g, basais, estados) ==
    [estados |-> estados, secundarios |-> <<>>, a_remover |-> <<>>]
primeira_varredura_grupo(g, basais, estados) ==
    varredura(g, basais, 0, estados, <<>>, <<>>, FALSE)
\* the scan inside the cascade loop of remover_grupo_simultaneo
varredura_grupo(g, basais, estados, secundarios) ==
    varredura(g, basais, 0, estados, secundarios, <<>>, TRUE)

\* while especies_a_remover: ... of remove_especie.  rodadas counts the
\* passes through the loop body.
RECURSIVE cascata_especie_passo_a_mais(_, _, _, _, _, _, _)
cascata_especie_passo_a_mais(g, basais, estados, vizinhos, secundarios, a_remover, rodadas) ==
    IF a_remover = <<>>
    THEN [g |-> g, estados |-> estados, vizinhos |-> vizinhos,
          secundarios |-> secundarios, rodadas |-> rodadas + 1]
    ELSE LET viz == vizinhos \cup vizinhos_de(g, a_remover)
             g2 == apagar_lote(g, sorted_reverse(a_remover)).g
             v == varredura_especie(g2, basais, estados, secundarios)
         IN cascata_especie_passo_a_mais(g2, basais, v.estados, viz, v.secundarios,
                            v.a_remover, rodadas + 1)
RECURSIVE cascata_especie(_, _, _, _, _, _, _)
cascata_especie(g, basais, estados, vizinhos, secundarios, a_remover, rodadas) ==
    IF a_remover = <<>>
    THEN [g |-> g, estados |-> estados, vizinhos |-> vizinhos,
          secundarios |-> secundarios, rodadas |-> rodadas]
    ELSE LET viz == vizinhos \cup vizinhos_de(g, a_remover)
             g2 == apagar_lote(g, sorted_reverse(a_remover)).g
             v == varredura_especie(g2, basais, estados, secundarios)
         IN cascata_especie(g2, basais, v.estados, viz, v.secundarios,
                            v.a_remover, rodadas + 1)

\* while especies_a_remover: ... of remover_grupo_simultaneo
RECURSIVE cascata_grupo(_, _, _, _, _, _, _)
cascata_grupo(g, basais, estados, vizinhos, secundarios, a_remover, rodadas) ==
    IF a_remover = <<>>
    THEN [g |-> g, estados |-> estados, vizinhos |-> vizinhos,
          secundarios |-> secundarios, rodadas |-> rodadas]
    ELSE LET viz == vizinhos \cup vizinhos_de(g, a_remover)
             g2 == apagar_lote(g, sorted_reverse(a_remover)).g
             v == varredura_grupo(g2, basais, estados, secundarios)
         IN cascata_grupo(g2, basais, v.estados, viz, v.secundarios,
                          v.a_remover, rodadas + 1)

\* for nome in vizinhos_afetados: if estados_nos.get(nome) == 'vivo': 'afetado'
marcar_afetados(estados, vizinhos) ==
    [n \in DOMAIN estados |->
        IF n \in vizinhos /\ estados[n] = "vivo" THEN "afetado" ELSE estados[n]]

\* A request identifier is a Python str or int:
\* [str |-> TRUE, nome |-> "A", idx |-> 0] or [str |-> FALSE, nome |-> "", idx |-> 2]
Nome(n) == [str |-> TRUE, nome |-> n, idx |-> 0]
Indice(i) == [str |-> FALSE, nome |-> "", idx |-> i]

\* without the test identificador_especie < 0: vs[-1] is the last vertex
resolver_especie_negativo(g, ident) ==
    IF ident.str THEN find_name(g, ident.nome)
    ELSE IF ident.idx >= vcount(g) THEN -1
         ELSE IF ident.idx < 0 THEN vcount(g) + ident.idx ELSE ident.idx

\* the vertex an identifier of remove_especie resolves to, -1 when it raises
resolver_especie(g, ident) ==
    IF ident.str THEN find_name(g, ident.nome)
    ELSE IF ident.idx < 0 \/ ident.idx >= vcount(g) THEN -1 ELSE ident.idx

\* remove_especie(identificador_especie): the object afterwards, the exception
\* raised ("" for none) and the event returned
remove_especie(self, ident) ==
    LET g == self.grafo
        vertex == resolver_especie(g, ident)
    IN IF vertex = -1
       THEN [self |-> self, exc |-> "ValueError", evento |-> NenhumEvento,
             rodadas |-> 0]
       ELSE
         LET extincao_primaria == IF g.named THEN g.vs[vertex + 1] ELSE int_key(vertex)
             vizinhos0 == vizinhos_de(g, <<vertex>>)
             estados0 == dict_set(self.estados_nos, extincao_primaria, "extinto_primario")
             c == cascata_especie(g, self.especies_basais, estados0, vizinhos0,
                                  <<>>, <<vertex>>, 0)
             estados1 == marcar_afetados(c.estados, c.vizinhos)
             evento == [passo |-> self.passo_atual + 1,
                        extincao_primaria |-> <<extincao_primaria>>,
                        primaria_lista |-> FALSE,
                        extincoes_secundarias |-> c.secundarios,
                        extincoes_totais |-> 1 + Len(c.secundarios),
                        extintos |-> <<extincao_primaria>> \o c.secundarios,
                        restantes |-> vcount(c.g)]
         IN [self |-> [self EXCEPT
                         !.grafo = c.g,
                         !.estados_nos = estados1,
                         !.historico_estados = append_deepcopy(@, estados1),
                         !.passo_atual = @ + 1,
                         !.historico_extincoes = Append(@, evento)],
             exc |-> "", evento |-> evento, rodadas |-> c.rodadas]

\* The resolution loop of remover_grupo_simultaneo over lista_especies:
\* vertices_a_remover (indices), nomes_primarios and the warnings printed.
RECURSIVE resolver_grupo(_, _, _, _, _)
resolver_grupo(g, lista, vertices, nomes, avisos) ==
    IF lista = <<>>
    THEN [vertices |-> vertices, nomes |-> nomes, avisos |-> avisos]
    ELSE LET identificador == Head(lista)
         IN IF identificador.str
            THEN IF find_name(g, identificador.nome) # -1
                 THEN resolver_grupo(g, Tail(lista),
                                     Append(vertices, find_name(g, identificador.nome)),
                                     Append(nomes, identificador.nome), avisos)
                 ELSE resolver_grupo(g, Tail(lista), vertices, nomes,
                                     Append(avisos, identificador))
            ELSE IF 0 <= identificador.idx /\ identificador.idx < vcount(g)
                 THEN resolver_grupo(g, Tail(lista),
                                     Append(vertices, identificador.idx),
                                     Append(nomes, nome_de(g, identificador.idx)),
                                     avisos)
                 ELSE resolver_grupo(g, Tail(lista), vertices, nomes, avisos)

\* for vertex in vertices_a_remover: estados_nos[nome] = 'extinto_primario'
RECURSIVE marcar_primarios(_, _, _)
marcar_primarios(g, vertices, estados) ==
    IF vertices = <<>> THEN estados
    ELSE marcar_primarios(g, Tail(vertices),
                          dict_set(estados, nome_de(g, Head(vertices)),
                                   "extinto_primario"))

\* without the early return on an empty vertices_a_remover
sem_validos_nunca(vertices) == FALSE

\* if not vertices_a_remover: return {'erro': ...}
sem_validos(vertices) == vertices = <<>>

\* remover_grupo_simultaneo(lista_especies)
remover_grupo_simultaneo(self, lista) ==
    LET g == self.grafo
        r == resolver_grupo(g, lista, <<>>, <<>>, <<>>)
    IN IF sem_validos(r.vertices)
       THEN [self |-> self, exc |-> "", erro |-> TRUE, evento |-> NenhumEvento,
             avisos |-> r.avisos, resolvidos |-> Len(r.vertices), rodadas |-> 0]
       ELSE
         LET estados0 == marcar_primarios(g, r.vertices, self.estados_nos)
             vizinhos0 == vizinhos_de(g, r.vertices)
             lote == apagar_lote(g, sorted_reverse(r.vertices))
         IN IF ~lote.ok
            THEN [self |-> [self EXCEPT !.grafo = lote.g, !.estados_nos = estados0],
                  exc |-> "InternalError", erro |-> FALSE, evento |-> NenhumEvento,
                  avisos |-> r.avisos, resolvidos |-> Len(r.vertices), rodadas |-> 0]
            ELSE
              LET v == primeira_varredura_grupo(lote.g, self.especies_basais, estados0)
                  c == cascata_grupo(lote.g, self.especies_basais, v.estados,
                                     vizinhos0, v.secundarios, v.a_remover, 0)
                  estados1 == marcar_afetados(c.estados, c.vizinhos)
                  evento == [passo |-> self.passo_atual + 1,
                             extincao_primaria |-> r.nomes,
                             primaria_lista |-> TRUE,
                             extincoes_secundarias |-> c.secundarios,
                             extincoes_totais |-> Len(r.nomes) + Len(c.secundarios),
                             extintos |-> r.nomes \o c.secundarios,
                             restantes |-> vcount(c.g)]
              IN [self |-> [self EXCEPT
                              !.grafo = c.g,
                              !.estados_nos = estados1,
                              !.historico_estados = append_deepcopy(@, estados1),
                              !.passo_atual = @ + 1,
                              !.historico_extincoes = Append(@, evento)],
                  exc |-> "", erro |-> FALSE, evento |-> evento,
                  avisos |-> r.avisos, resolvidos |-> Len(r.vertices),
                  rodadas |-> c.rodadas]

\* simular_sequencia(sequencia_especies): remove_especie for each entry in
\* order; a ValueError is caught, a warning is printed and the loop goes on.
\* The result holds the object afterwards, the events returned and the
\* warnings printed.  The outcome r of each remove_especie is bound as element
\* of a singleton, which makes TLC evaluate it once.
RECURSIVE simular_sequencia_de(_, _, _, _)
simular_sequencia_de(self, sequencia, resultados, avisos) ==
    IF sequencia = <<>>
    THEN [self |-> self, resultados |-> resultados, avisos |-> avisos]
    ELSE CHOOSE fim \in
           {IF r.exc = "ValueError"
            THEN simular_sequencia_de(r.self, Tail(sequencia), resultados,
                                      Append(avisos, Head(sequencia)))
            ELSE simular_sequencia_de(r.self, Tail(sequencia),
                                      Append(resultados, r.evento), avisos) :
              r \in {remove_especie(self, Head(sequencia))}} : TRUE
\* the loop without the try/except: the first ValueError ends it
RECURSIVE sequencia_sem_try(_, _, _)
sequencia_sem_try(self, sequencia, resultados) ==
    IF sequencia = <<>>
    THEN [self |-> self, resultados |-> resultados, avisos |-> <<>>]
    ELSE CHOOSE fim \in
           {IF r.exc = "ValueError"
            THEN [self |-> r.self, resultados |-> resultados, avisos |-> <<>>]
            ELSE sequencia_sem_try(r.self, Tail(sequencia),
                                   Append(resultados, r.evento)) :
              r \in {remove_especie(self, Head(sequencia))}} : TRUE
simular_sequencia_sem_try(self, sequencia) == sequencia_sem_try(self, sequencia, <<>>)
simular_sequencia(self, sequencia) == simular_sequencia_de(self, sequencia, <<>>, <<>>)

\* the graph object the caller passed to __init__, as a scratch simulation
\* leaves it: __init__ keeps that object as grafo_original and works on a copy
objeto_sem_copia(sim) == sim.grafo
\* the object received when the working graph is a shallow copy of it: the two
\* have their own vertex lists and share the edge list
objeto_copia_rasa(sim) == [sim.grafo_original EXCEPT !.es = sim.grafo.es]
objeto_recebido(sim) == sim.grafo_original

\* the loop of get_vulnerabilidade_ranking from vertex index k on: one scratch
\* simulation built on the caller's self.grafo per vertex; self.grafo is the
\* object the scratch simulation received.  sim_temp and resultado are bound
\* as elements of a singleton, which makes TLC evaluate each of them once.
RECURSIVE laco_ranking(_, _, _)
laco_ranking(self, k, pontuacoes) ==
    IF k >= vcount(self.grafo) THEN [self |-> self, pontuacoes |-> pontuacoes]
    ELSE CHOOSE fim \in
           {laco_ranking([self EXCEPT !.grafo = objeto_recebido(resultado.self)],
                         k + 1,
                         Append(pontuacoes,
                                [nome |-> IF self.grafo.named
                                          THEN self.grafo.vs[k + 1]
                                          ELSE int_key(k),
                                 tamanho |-> resultado.evento.extincoes_totais])) :
              resultado \in {remove_especie(sim_temp, Indice(k)) :
                                sim_temp \in {construtor(self.grafo)}}} : TRUE

\* the (identity, cascade size) pairs before the sort
pontuacoes_vulnerabilidade(self) == laco_ranking(self, 0, <<>>).pontuacoes

\* list.sort(key=lambda x: x[1], reverse=True): descending by size, pairs of
\* equal size keep the order they had (the sort is stable)
RECURSIVE sort_crescente_invertido(_)
sort_crescente_invertido(lista) ==
    IF lista = <<>> THEN <<>>
    ELSE LET maior == CHOOSE p \in DOMAIN lista :
                         /\ \A q \in DOMAIN lista : lista[q].tamanho <= lista[p].tamanho
                         /\ \A q \in p + 1 .. Len(lista) :
                                lista[q].tamanho < lista[p].tamanho
         IN <<lista[maior]>>
            \o sort_crescente_invertido(SubSeq(lista, 1, maior - 1)
                                        \o SubSeq(lista, maior + 1, Len(lista)))
RECURSIVE sort_reverse(_)
sort_reverse(lista) ==
    IF lista = <<>> THEN <<>>
    ELSE LET maior == CHOOSE p \in DOMAIN lista :
                         /\ \A q \in DOMAIN lista : lista[q].tamanho <= lista[p].tamanho
                         /\ \A q \in 1 .. p - 1 : lista[q].tamanho < lista[p].tamanho
         IN <<lista[maior]>>
            \o sort_reverse(SubSeq(lista, 1, maior - 1)
                            \o SubSeq(lista, maior + 1, Len(lista)))

\* get_vulnerabilidade_ranking(): the object after the call and the list returned
get_vulnerabilidade_ranking(self) ==
    LET l == laco_ranking(self, 0, <<>>)
    IN [self |-> l.self, ranking |-> sort_reverse(l.pontuacoes)]

\* get_robustez(): tamanho_atual / tamanho_original as a fraction, 0 when the
\* original graph is empty
get_robustez_extintas(self) ==
    IF vcount(self.grafo_original) > 0
    THEN [num |-> vcount(self.grafo_original) - vcount(self.grafo),
          den |-> vcount(self.grafo_original)]
    ELSE [num |-> 0, den |-> 1]
get_robustez(self) ==
    IF vcount(self.grafo_original) > 0
    THEN [num |-> vcount(self.grafo), den |-> vcount(self.grafo_original)]
    ELSE [num |-> 0, den |-> 1]

\* sum(len(event['secondary_extinctions']) for event in historico_extincoes)
RECURSIVE soma_secundarias(_)
soma_secundarias(historico) ==
    IF historico = <<>> THEN 0
    ELSE Len(Head(historico).secondary_extinctions) + soma_secundarias(Tail(historico))
NenhumResumo ==
    [total_steps |-> 0, total_primary_extinctions |-> 0,
     total_secondary_extinctions |-> 0, total_extinctions |-> 0,
     original_species_count |-> 0, remaining_species_count |-> 0,
     robustness |-> [num |-> 0, den |-> 1], basal_species_count |-> 0]
\* get_resumo(): event['secondary_extinctions'] raises KeyError for an event
\* that has no such key; the keys of an event are the fields of its record.
\* The 'extinction_history' entry of the summary is the event log itself.
get_resumo(self) ==
    IF \E i \in DOMAIN self.historico_extincoes :
         "secondary_extinctions" \notin DOMAIN self.historico_extincoes[i]
    THEN [exc |-> "KeyError", resumo |-> NenhumResumo]
    ELSE LET total_primaria == Len(self.historico_extincoes)
             total_secundaria == soma_secundarias(self.historico_extincoes)
         IN [exc |-> "",
             resumo |-> [total_steps |-> self.passo_atual,
                         total_primary_extinctions |-> total_primaria,
                         total_secondary_extinctions |-> total_secundaria,
                         total_extinctions |-> total_primaria + total_secundaria,
                         original_species_count |-> vcount(self.grafo_original),
                         remaining_species_count |-> vcount(self.grafo),
                         robustness |-> get_robustez(self),
                         basal_species_count |-> Cardinality(self.especies_basais)]]

\* round(1.0 - grau_atual / grau_original, 3), in thousandths
perda_divisao_inteira(grau_atual, grau_original) ==
    1000 * (1 - (grau_atual \div grau_original))
perda(grau_atual, grau_original) ==
    (2000 * (grau_original - grau_atual) + grau_original) \div (2 * grau_original)

\* calcular_perda_dieta(): name -> loss in thousandths, for the vertices of the
\* working graph whose name is not basal
calcular_perda_dieta(self) ==
    LET g == self.grafo
        o == self.grafo_original
        graus_originais == [n \in {nome_de(o, i) : i \in indices(o)} |->
                               indegree(o, CHOOSE i \in indices(o) : nome_de(o, i) = n)]
        vivos == {i \in indices(g) : nome_de(g, i) \notin self.especies_basais}
    IN [n \in {nome_de(g, i) : i \in vivos} |->
          LET grau_atual == indegree(g, CHOOSE i \in vivos : nome_de(g, i) = n)
              grau_original == dict_get_int(graus_originais, n)
          IN IF grau_original > 0 THEN perda(grau_atual, grau_original) ELSE 0]

\* plotar_cascata(especie, salvar_dir=dir): saves five fields, calls reset()
\* and remove_especie(especie), draws one figure for the initial state and one
\* per entry of historico_estados, and puts the five saved fields back.  An
\* exception of remove_especie leaves the method before the fields are put
\* back.  The result holds the object afterwards, the exception raised and
\* the number of paths returned.  The object after reset() and the outcome r
\* of remove_especie are bound as elements of a singleton, which makes TLC
\* evaluate each of them once.
plotar_cascata(self, especie) ==
    CHOOSE fim \in
      {IF r.exc # ""
       THEN [self |-> r.self, exc |-> r.exc, caminhos |-> 0]
       ELSE [self |-> [r.self EXCEPT
                         !.grafo = self.grafo,
                         !.estados_nos = self.estados_nos,
                         !.historico_estados = self.historico_estados,
                         !.historico_extincoes = self.historico_extincoes,
                         !.passo_atual = self.passo_atual],
             exc |-> "",
             caminhos |-> 1 + Len(r.self.historico_estados)] :
         r \in {remove_especie(novo, especie) : novo \in {reset(self)}}} : TRUE

\* the five assignments that put the saved fields back, without the one of
\* historico_estados
restaurar_sem_historico(self, estado_original) ==
    [self EXCEPT !.grafo = estado_original.grafo,
                 !.estados_nos = estado_original.estados_nos,
                 !.historico_extincoes = estado_original.historico_extincoes,
                 !.passo_atual = estado_original.passo_atual]
\* self.grafo = estado_original['grafo'] ... self.passo_atual = ...
restaurar(self, estado_original) ==
    [self EXCEPT !.grafo = estado_original.grafo,
                 !.estados_nos = estado_original.estados_nos,
                 !.historico_estados = estado_original.historico_estados,
                 !.historico_extincoes = estado_original.historico_extincoes,
                 !.passo_atual = estado_original.passo_atual]

\* the loop of plotar_comparacao over especies: reset() and remove_especie for
\* each; an exception of remove_especie leaves the loop and the method
RECURSIVE laco_comparacao(_, _)
laco_comparacao(self, especies) ==
    IF especies = <<>> THEN [self |-> self, exc |-> ""]
    ELSE CHOOSE fim \in
           {IF r.exc # "" THEN [self |-> r.self, exc |-> r.exc]
            ELSE laco_comparacao(r.self, Tail(especies)) :
              r \in {remove_especie(novo, Head(especies)) : novo \in {reset(self)}}} : TRUE
\* plotar_comparacao(especies) for a non-empty list: the object afterwards and
\* the exception raised; the saved fields are put back after the loop
plotar_comparacao(self, especies) ==
    CHOOSE fim \in
      {IF l.exc # "" THEN l ELSE [self |-> restaurar(l.self, self), exc |-> ""] :
         l \in {laco_comparacao(self, especies)}} : TRUE

\* ------------------------------------------------------ limpar_grafos
\* A graph as limpar_grafos.py reads it from a .graphml file: vcount vertices
\* 0 .. vcount-1, an edge list that may hold the same (origem, destino) pair
\* more than once, and the directed flag.

\* the key under which an edge is looked up in arestas_vistas
aresta_tuple_ordenada(is_directed, origem, destino) ==
    IF origem <= destino THEN <<origem, destino>> ELSE <<destino, origem>>
aresta_tuple(is_directed, origem, destino) ==
    IF is_directed THEN <<origem, destino>>
    ELSE IF origem <= destino THEN <<origem, destino>> ELSE <<destino, origem>>

\* the for loop over enumerate(arestas) from index idx on: the indices of the
\* edges to remove
RECURSIVE laco_arestas(_, _, _, _, _)
laco_arestas(arestas, is_directed, idx, arestas_vistas, arestas_para_remover) ==
    IF idx >= Len(arestas) THEN arestas_para_remover
    ELSE LET chave == aresta_tuple(is_directed, arestas[idx + 1][1], arestas[idx + 1][2])
         IN IF chave \in arestas_vistas
            THEN laco_arestas(arestas, is_directed, idx + 1, arestas_vistas,
                              Append(arestas_para_remover, idx))
            ELSE laco_arestas(arestas, is_directed, idx + 1,
                              arestas_vistas \cup {chave}, arestas_para_remover)

\* Graph.delete_edges(list of edge indices): the edges at the other indices
\* stay, in their order
RECURSIVE edgelist_sem(_, _, _)
edgelist_sem(arestas, idx, removidas) ==
    IF idx >= Len(arestas) THEN <<>>
    ELSE (IF idx \in removidas THEN <<>> ELSE <<arestas[idx + 1]>>)
         \o edgelist_sem(arestas, idx + 1, removidas)
delete_edges(g, lista) ==
    [g EXCEPT !.arestas = edgelist_sem(g.arestas, 0, {lista[i] : i \in DOMAIN lista})]

\* the object the caller passed (g), after the call: the function works on
\* grafo_limpo = grafo.copy()
grafo_passado(g, grafo_limpo) == g

\* limpar_arestas_duplicadas(grafo), with g for the parameter grafo: the graph
\* returned, the caller's graph after the call and the number printed
limpar_arestas_duplicadas(g) ==
    LET arestas_para_remover == laco_arestas(g.arestas, g.directed, 0, {}, <<>>)
        grafo_limpo == IF arestas_para_remover # <<>>
                       THEN delete_edges(g, arestas_para_remover)
                       ELSE g
    IN [grafo_limpo |-> grafo_limpo,
        grafo |-> grafo_passado(g, grafo_limpo),
        removidas |-> Len(arestas_para_remover)]

\* no graph read yet
NenhumGrafo == [vcount |-> 0, arestas |-> <<>>, directed |-> TRUE]
NenhumaLimpeza ==
    [lido |-> NenhumGrafo, grafo_original |-> NenhumGrafo,
     grafo_limpo |-> NenhumGrafo, removidas |-> 0, passadas |-> 0]

\* ------------------------------------------------------- state machine
Self ==
    [grafo_original |-> grafo_original,
     grafo |-> grafo,
     especies_basais |-> especies_basais,
     historico_extincoes |-> historico_extincoes,
     passo_atual |-> passo_atual,
     estados_nos |-> estados_nos,
     historico_estados |-> historico_estados]

Atribuir(s) ==
    /\ grafo_original' = s.grafo_original
    /\ grafo' = s.grafo
    /\ especies_basais' = s.especies_basais
    /\ historico_extincoes' = s.historico_extincoes
    /\ passo_atual' = s.passo_atual
    /\ estados_nos' = s.estados_nos
    /\ historico_estados' = s.historico_estados

\* what the last call did: the operation, the exception it raised, whether it
\* returned the {'erro': ...} dictionary, the event it returned, the number of
\* warnings it printed, the number of request identifiers it did not resolve, and the
\* passes it made through its cascade loop, the step counter it found, the
\* vertices of the working graph a removal found, the number of request identifiers it
\* resolved, the number of image paths it returned, and the value a query
\* returned
Chamada(op, exc, erro, evento, avisos, ignorados, rodadas) ==
    [op |-> op, exc |-> exc, erro |-> erro, evento |-> evento,
     avisos |-> avisos, ignorados |-> ignorados, rodadas |-> rodadas,
     antes |-> passo_atual,
     vivos_antes |-> IF op \in {"remove_especie", "remover_grupo_simultaneo"}
                     THEN {grafo.vs[k] : k \in 1 .. vcount(grafo)}
                     ELSE {},
     resolvidos |-> 0,
     caminhos |-> 0,
     ranking |-> <<>>,
     robustez |-> [num |-> 0, den |-> 1],
     perdas |-> <<>>,
     repetida |-> FALSE,
     resumo |-> NenhumResumo,
     pulados |-> <<>>]

\* The food webs a simulation is built on: the first n names as vertices, with
\* or without the 'name' attribute, and at most MaxEdges edges among the
\* candidate edges between them.  The candidates hold the chain A->B->C->D,
\* two prey of one predator (A->C, B->C), an edge back (B->A closes the cycle
\* A<->B and puts a predator before its prey) and a self-loop (C->C).
ArestasCandidatas ==
    {<<"A", "B">>, <<"B", "C">>, <<"C", "D">>, <<"A", "C">>, <<"B", "A">>,
     <<"C", "C">>}
Pares(n) ==
    {e \in ArestasCandidatas :
        \E i \in 1 .. n, j \in 1 .. n : e = <<Names[i], Names[j]>>}
GrafosIniciais ==
    UNION {
      {[named |-> b, vs |-> SubSeq(Names, 1, n), es |-> E] :
          b \in BOOLEAN,
          E \in {S \in SUBSET Pares(n) : Cardinality(S) <= MaxEdges}} :
      n \in 0 .. Len(Names)}

Init ==
    \E g \in GrafosIniciais :
        /\ grafo_original = g
        /\ grafo = construtor(g).grafo
        /\ especies_basais = construtor(g).especies_basais
        /\ historico_extincoes = construtor(g).historico_extincoes
        /\ passo_atual = construtor(g).passo_atual
        /\ estados_nos = construtor(g).estados_nos
        /\ historico_estados = construtor(g).historico_estados
        /\ ultimo = Chamada("__init__", "", FALSE, NenhumEvento, 0, 0, 0)
        /\ inicial = construtor(g)
        /\ sims_temp = <<>>
        /\ concluidos = <<>>
        /\ limpeza = NenhumaLimpeza

\* the identifiers a caller may pass: every name of the original graph and a
\* name that never existed; every index from -1 to one past the last
NomesPedidos == {Names[i] : i \in 1 .. vcount(grafo_original)} \cup {"Z"}
Identificadores ==
    {Nome(n) : n \in NomesPedidos} \cup {Indice(i) : i \in -1 .. vcount(grafo)}
\* the request lists of a grouped call: up to MaxReq names, or up to MaxReq
\* indices, repetitions included
RECURSIVE Listas(_, _)
Listas(alfabeto, n) ==
    IF n = 0 THEN {<<>>}
    ELSE Listas(alfabeto, n - 1)
         \cup {Append(l, x) : l \in {m \in Listas(alfabeto, n - 1) : Len(m) = n - 1},
                              x \in alfabeto}
ListasPedidas ==
    Listas({Nome(n) : n \in NomesPedidos}, MaxReq)
    \cup Listas({Indice(i) : i \in 0 .. vcount(grafo)}, MaxReq)

\* The caller goes on to another removal only after a call that returned
\* normally.  An exception ends the caller's script (main catches it and
\* stops).  A call that raised ValueError or returned the error dictionary
\* left every field as it was (C7, C9), and so did a query (C11, C20), so
\* what can follow it is what can follow the state before it, which is
\* explored from there.
Operacoes == {"__init__", "reset", "remove_especie", "remover_grupo_simultaneo"}
Pronto == ultimo.exc = "" /\ ~ultimo.erro /\ ultimo.op \in Operacoes

RemoveEspecie ==
    /\ Pronto
    /\ passo_atual < MaxPasso
    /\ \E ident \in Identificadores :
         \E r \in {remove_especie(Self, ident)} :
            /\ Atribuir(r.self)
            /\ ultimo' = [Chamada("remove_especie", r.exc, FALSE, r.evento, 0, 0,
                                  r.rodadas)
                             EXCEPT !.resolvidos = IF r.exc = "" THEN 1 ELSE 0]
    /\ UNCHANGED <<inicial, sims_temp, concluidos, limpeza>>

RemoverGrupoSimultaneo ==
    /\ Pronto
    /\ passo_atual < MaxPasso
    /\ \E lista \in ListasPedidas :
         \E r \in {remover_grupo_simultaneo(Self, lista)} :
            /\ Atribuir(r.self)
            /\ ultimo' = [Chamada("remover_grupo_simultaneo", r.exc, r.erro,
                                  r.evento, Len(r.avisos),
                                  Len(lista) - r.resolvidos, r.rodadas)
                             EXCEPT !.resolvidos = r.resolvidos]
    /\ UNCHANGED <<inicial, sims_temp, concluidos, limpeza>>

Reset ==
    /\ Atribuir(reset(Self))
    /\ ultimo' = Chamada("reset", "", FALSE, NenhumEvento, 0, 0, 0)
    /\ UNCHANGED <<inicial, sims_temp, concluidos, limpeza>>

\* The queries and the plot helper are called, like the removals, while the
\* simulation has made fewer than MaxPasso steps: the bound is on the length
\* of the caller's script.
\* The ranker may also be called again right after a call of the ranker;
\* repetida marks such a call.
GetVulnerabilidadeRanking ==
    /\ Pronto \/ ultimo.op = "get_vulnerabilidade_ranking"
    /\ passo_atual < MaxPasso
    /\ \E r \in {get_vulnerabilidade_ranking(Self)} :
          /\ Atribuir(r.self)
          /\ ultimo' = [Chamada("get_vulnerabilidade_ranking", "", FALSE,
                                NenhumEvento, 0, 0, 0)
                           EXCEPT !.ranking = r.ranking,
                                  !.repetida = (ultimo.op = "get_vulnerabilidade_ranking")]
    /\ UNCHANGED <<inicial, sims_temp, concluidos, limpeza>>

GetRobustez ==
    /\ Pronto
    /\ passo_atual < MaxPasso
    /\ ultimo' = [Chamada("get_robustez", "", FALSE, NenhumEvento, 0, 0, 0)
                     EXCEPT !.robustez = get_robustez(Self)]
    /\ UNCHANGED <<campos, inicial, sims_temp, concluidos, limpeza>>

\* especie: str, the name of the species to remove
\* the sequence is short enough for the step counter to stay within MaxPasso
SimularSequencia ==
    /\ Pronto
    /\ \E sequencia \in ListasPedidas :
         /\ passo_atual + Len(sequencia) <= MaxPasso
         /\ \E r \in {simular_sequencia(Self, sequencia)} :
               /\ Atribuir(r.self)
               /\ ultimo' = [Chamada("simular_sequencia", "", FALSE, NenhumEvento,
                                     Len(r.avisos),
                                     Len(sequencia) - Len(r.resultados), 0)
                                EXCEPT !.resolvidos = Len(r.resultados),
                                       !.pulados = r.avisos]
    /\ UNCHANGED <<inicial, sims_temp, concluidos, limpeza>>

GetResumo ==
    /\ Pronto
    /\ passo_atual < MaxPasso
    /\ LET r == get_resumo(Self)
       IN ultimo' = [Chamada("get_resumo", r.exc, FALSE, NenhumEvento, 0, 0, 0)
                       EXCEPT !.resumo = r.resumo]
    /\ UNCHANGED <<campos, inicial, sims_temp, concluidos, limpeza>>

CalcularPerdaDieta ==
    /\ Pronto
    /\ passo_atual < MaxPasso
    /\ ultimo' = [Chamada("calcular_perda_dieta", "", FALSE, NenhumEvento, 0, 0, 0)
                     EXCEPT !.perdas = calcular_perda_dieta(Self)]
    /\ UNCHANGED <<campos, inicial, sims_temp, concluidos, limpeza>>

PlotarCascata ==
    /\ Pronto
    /\ passo_atual < MaxPasso
    /\ \E especie \in {Nome(n) : n \in NomesPedidos} :
         \E r \in {plotar_cascata(Self, especie)} :
            /\ Atribuir(r.self)
            /\ ultimo' = [Chamada("plotar_cascata", r.exc, FALSE, NenhumEvento,
                                  0, 0, 0)
                             EXCEPT !.caminhos = r.caminhos]
    /\ UNCHANGED <<inicial, sims_temp, concluidos, limpeza>>

\* the lists of one to MaxReq names to compare
PlotarComparacao ==
    /\ Pronto
    /\ passo_atual < MaxPasso
    /\ \E especies \in Listas({Nome(n) : n \in NomesPedidos}, MaxReq) \ {<<>>} :
         \E r \in {plotar_comparacao(Self, especies)} :
            /\ Atribuir(r.self)
            /\ ultimo' = Chamada("plotar_comparacao", r.exc, FALSE, NenhumEvento,
                                 0, 0, 0)
    /\ UNCHANGED <<inicial, sims_temp, concluidos, limpeza>>

Next ==
    \/ RemoveEspecie
    \/ RemoverGrupoSimultaneo
    \/ Reset
    \/ GetVulnerabilidadeRanking
    \/ GetRobustez
    \/ PlotarCascata
    \/ CalcularPerdaDieta
    \/ SimularSequencia
    \/ GetResumo
    \/ PlotarComparacao

Spec == Init /\ [][Next]_vars

\* ---------------------------------------- the ranker's runs, interleaved
\* The loop body of get_vulnerabilidade_ranking taken as two steps per vertex
\* of the working graph, which may be scheduled in any order and interleaved:
\* sims_temp holds the scratch simulations built and not yet run, concluidos
\* the (index, identity, cascade size) results in the order the runs ended.
\* The one object the runs have in common is the caller's self.grafo, which
\* every scratch simulation holds as its grafo_original.

\* sim_temp = ExtincaoEmCascata(self.grafo) for the vertex of index k
CriarSimTemp ==
    /\ Pronto
    /\ ultimo.op # "remover_grupo_simultaneo"
    /\ \E k \in indices(grafo) :
         /\ k \notin DOMAIN sims_temp
         /\ \A i \in DOMAIN concluidos : concluidos[i].indice # k
         /\ sims_temp' = dict_set(sims_temp, k, construtor(grafo))
    /\ UNCHANGED <<campos, ultimo, inicial, concluidos, limpeza>>

\* resultado = sim_temp.remove_especie(v.index) and the pair built from it;
\* self.grafo is the object the scratch simulation received
RemoverEmSimTemp ==
    /\ \E k \in DOMAIN sims_temp :
         \E resultado \in {remove_especie(sims_temp[k], Indice(k))} :
            /\ grafo' = objeto_recebido(resultado.self)
            /\ concluidos' = Append(concluidos,
                                    [indice |-> k,
                                     nome |-> IF grafo.named THEN grafo.vs[k + 1]
                                              ELSE int_key(k),
                                     tamanho |-> resultado.evento.extincoes_totais])
            /\ sims_temp' = [i \in DOMAIN sims_temp \ {k} |-> sims_temp[i]]
    /\ UNCHANGED <<grafo_original, especies_basais, historico_extincoes,
                   passo_atual, estados_nos, historico_estados, ultimo, inicial,
                   limpeza>>

\* the results placed at the position of their vertex in the loop
pontuacoes_por_indice(feitos) ==
    [i \in 1 .. Len(feitos) |->
        LET c == CHOOSE c \in {feitos[j] : j \in DOMAIN feitos} : c.indice = i - 1
        IN [nome |-> c.nome, tamanho |-> c.tamanho]]

\* every run has ended: the sort and the return
OrdenarPontuacoes ==
    /\ Pronto
    /\ DOMAIN sims_temp = {}
    /\ vcount(grafo) > 0
    /\ Len(concluidos) = vcount(grafo)
    /\ ultimo' = [Chamada("get_vulnerabilidade_ranking", "", FALSE,
                          NenhumEvento, 0, 0, 0)
                     EXCEPT !.ranking = sort_reverse(pontuacoes_por_indice(concluidos))]
    /\ UNCHANGED <<campos, inicial, sims_temp, concluidos, limpeza>>

\* a removal before the ranker is called
RemoveEspecieAntes ==
    /\ DOMAIN sims_temp = {}
    /\ concluidos = <<>>
    /\ RemoveEspecie

NextRanker ==
    \/ RemoveEspecieAntes
    \/ CriarSimTemp
    \/ RemoverEmSimTemp
    \/ OrdenarPontuacoes

SpecRanker == Init /\ [][NextRanker]_vars

\* ------------------------------------------------ the graph-cleaning stage
\* limpeza holds what the cleaning stage has in hand: the graph as it was
\* read (lido), that object now (grafo_original, the name processar_grafos
\* gives it), the graph returned by the last call (grafo_limpo), the number of
\* edges that call removed and the number of calls made (passadas).  The
\* second call is the stage run again on the directory it wrote.
\* the (origem, destino) pairs of the files: both directions between the
\* vertices 0 and 1, a self-loop and an edge to a third vertex
ParesDeArquivo == {<<0, 1>>, <<1, 0>>, <<1, 1>>, <<1, 2>>}
RECURSIVE ListasDeArestas(_)
ListasDeArestas(n) ==
    IF n = 0 THEN {<<>>}
    ELSE ListasDeArestas(n - 1)
         \cup {Append(l, e) : l \in {x \in ListasDeArestas(n - 1) : Len(x) = n - 1},
                              e \in ParesDeArquivo}
GrafosDeArquivo ==
    {[vcount |-> 3, arestas |-> l, directed |-> d] :
        l \in ListasDeArestas(MaxArestas), d \in BOOLEAN}

InitLimpar ==
    /\ grafo_original = construtor([named |-> TRUE, vs |-> <<>>, es |-> {}]).grafo_original
    /\ grafo = construtor([named |-> TRUE, vs |-> <<>>, es |-> {}]).grafo
    /\ especies_basais = {}
    /\ historico_extincoes = <<>>
    /\ passo_atual = 0
    /\ estados_nos = <<>>
    /\ historico_estados = <<>>
    /\ ultimo = Chamada("__init__", "", FALSE, NenhumEvento, 0, 0, 0)
    /\ inicial = construtor([named |-> TRUE, vs |-> <<>>, es |-> {}])
    /\ sims_temp = <<>>
    /\ concluidos = <<>>
    /\ \E g \in GrafosDeArquivo :
         limpeza = [lido |-> g, grafo_original |-> g, grafo_limpo |-> NenhumGrafo,
                    removidas |-> 0, passadas |-> 0]

\* grafo_limpo = limpar_arestas_duplicadas(grafo_original) on the file read
LimparGrafo ==
    /\ limpeza.passadas = 0
    /\ \E r \in {limpar_arestas_duplicadas(limpeza.grafo_original)} :
         limpeza' = [limpeza EXCEPT !.grafo_original = r.grafo,
                                    !.grafo_limpo = r.grafo_limpo,
                                    !.removidas = r.removidas,
                                    !.passadas = 1]
    /\ UNCHANGED <<campos, ultimo, inicial, sims_temp, concluidos>>

\* the stage applied to the graph it wrote
LimparGrafoLimpo ==
    /\ limpeza.passadas = 1
    /\ \E r \in {limpar_arestas_duplicadas(limpeza.grafo_limpo)} :
         limpeza' = [limpeza EXCEPT !.grafo_limpo = r.grafo_limpo,
                                    !.removidas = r.removidas,
                                    !.passadas = 2]
    /\ UNCHANGED <<campos, ultimo, inicial, sims_temp, concluidos>>

NextLimpar ==
    \/ LimparGrafo
    \/ LimparGrafoLimpo

SpecLimpar == InitLimpar /\ [][NextLimpar]_vars

\* ---------------------------------------------------------------- claims
Extintos == {"extinto_primario", "extinto_secundario"}
Estados == {"vivo", "extinto_primario", "extinto_secundario", "afetado"}
RemocaoCompleta ==
    /\ ultimo.op \in {"remove_especie", "remover_grupo_simultaneo"}
    /\ ultimo.exc = ""
    /\ ~ultimo.erro
\* the handles of the vertices still in the working graph
NoGrafo(g) == {g.vs[k] : k \in 1 .. vcount(g)}
\* the 4-node chain A -> B -> C -> D of named vertices
Cadeia ==
    [named |-> TRUE, vs |-> <<"A", "B", "C", "D">>,
     es |-> {<<"A", "B">>, <<"B", "C">>, <<"C", "D">>}]
\* an identifier that names no vertex of the working graph g
NaoResolve(g, ident) ==
    IF ident.str
    THEN ~(g.named /\ ident.nome \in NoGrafo(g))
    ELSE ident.idx < 0 \/ ident.idx > vcount(g) - 1

\* C1: once a removal operation has completed, no vertex left in the working
\* graph is both outside the basal set and of in-degree 0.
C1_CascadeFixedPoint ==
    RemocaoCompleta =>
        \A i \in indices(grafo) :
            ~(nome_de(grafo, i) \notin especies_basais /\ indegree(grafo, i) = 0)

\* C2: the basal set computed at construction never changes, no member of it
\* ever has status extinto_secundario, and a member that is no longer in the
\* working graph left it as a primary removal.
C2_BasalImmunity ==
    ultimo.exc = "" =>
        /\ especies_basais = inicial.especies_basais
        /\ \A k \in 1 .. vcount(grafo_original) :
             LET id == nome_de(grafo_original, k - 1)
             IN id \in especies_basais =>
                  /\ estados_nos[id] # "extinto_secundario"
                  /\ grafo_original.vs[k] \notin NoGrafo(grafo)
                        => estados_nos[id] = "extinto_primario"

\* C3: for every vertex x of the working graph the score the ranker reports
\* for x is the extincoes_totais that remove_especie(x) on the current state
\* returns, and the scratch simulation's basal set is the caller's basal set
\* restricted to the vertices still present.
C3_RankerFaithful ==
    ultimo.exc = "" =>
        /\ \A i \in indices(grafo) :
             pontuacoes_vulnerabilidade(Self)[i + 1].tamanho
               = remove_especie(Self, Indice(i)).evento.extincoes_totais
        /\ construtor(grafo).especies_basais
             = especies_basais \cap {nome_de(grafo, i) : i \in indices(grafo)}

\* the state right after remove_especie(B) on a fresh simulation of the chain
C4_RemovedBFromChain ==
    /\ grafo_original = Cadeia
    /\ ultimo.op = "remove_especie"
    /\ ultimo.exc = ""
    /\ ultimo.antes = 0
    /\ ultimo.evento.extincao_primaria = <<"B">>

\* C4 as stated: on the chain A->B->C->D, remove_especie(B) on a fresh
\* simulation makes C then D secondary-extinct, reports 3 extinctions and
\* leaves A in the working graph with status 'vivo'.
C4_ChainOriginal ==
    C4_RemovedBFromChain =>
        /\ ultimo.evento.extincoes_secundarias = <<"C", "D">>
        /\ ultimo.evento.extincoes_totais = 3
        /\ NoGrafo(grafo) = {"A"}
        /\ estados_nos["A"] = "vivo"

\* C4 amended: on the chain A->B->C->D, remove_especie(B) on a fresh
\* simulation makes C then D secondary-extinct, reports 3 extinctions and
\* leaves A in the working graph with status 'afetado' (A lost its edge to B).
C4_ChainAmended ==
    C4_RemovedBFromChain =>
        /\ ultimo.evento.extincoes_secundarias = <<"C", "D">>
        /\ ultimo.evento.extincoes_totais = 3
        /\ NoGrafo(grafo) = {"A"}
        /\ estados_nos["A"] = "afetado"
        /\ estados_nos["B"] = "extinto_primario"
        /\ estados_nos["C"] = "extinto_secundario"
        /\ estados_nos["D"] = "extinto_secundario"

\* C5: for every vertex x of the working graph, by index or by name,
\* remover_grupo_simultaneo([x]) gives the same working graph, the same
\* node-state table and the same ordered secondary list as remove_especie(x).
C5_GroupOfOneIsSingle ==
    ultimo.exc = "" =>
        \A x \in {ident \in Identificadores : ~NaoResolve(grafo, ident)} :
            LET um == remove_especie(Self, x)
                grupo == remover_grupo_simultaneo(Self, <<x>>)
            IN /\ grupo.self.grafo = um.self.grafo
               /\ grupo.self.estados_nos = um.self.estados_nos
               /\ grupo.evento.extincoes_secundarias = um.evento.extincoes_secundarias

\* the status changes a removal operation may make
Transicao(a, b) ==
    \/ a = b
    \/ a = "vivo" /\ b \in {"extinto_primario", "extinto_secundario", "afetado"}
    \/ a = "afetado" /\ b \in {"extinto_primario", "extinto_secundario"}

\* C6: between two resets every node has exactly one status among the four,
\* a status only moves vivo -> {extinto_primario, extinto_secundario, afetado}
\* or afetado -> {extinto_primario, extinto_secundario}, and an extinct status
\* never changes again.
C6_StatusMonotone ==
    [][ultimo'.op # "reset" =>
          /\ DOMAIN estados_nos' = DOMAIN estados_nos
          /\ \A n \in DOMAIN estados_nos :
               /\ estados_nos'[n] \in Estados
               /\ Transicao(estados_nos[n], estados_nos'[n])]_vars

\* C7: remove_especie with a name not in the working graph, or an index
\* outside 0..|working graph|-1, raises and leaves the working graph, the
\* node-state table, both histories and the step counter as they were.
C7_SingleFailsAtomically ==
    /\ \A ident \in {x \in Identificadores : NaoResolve(grafo, x)} :
         /\ remove_especie(Self, ident).exc = "ValueError"
         /\ remove_especie(Self, ident).self = Self
    /\ (ultimo.op = "remove_especie" /\ ultimo.exc = "ValueError")
          => passo_atual = ultimo.antes /\ Len(historico_extincoes) = ultimo.antes
C7_Witness ==
    /\ ultimo.op = "remove_especie"
    /\ ultimo.exc = "ValueError"
    /\ passo_atual > 0
    /\ vcount(grafo) > 0

\* C8: remover_grupo_simultaneo prints a warning for every identifier of the
\* request it cannot resolve; none is dropped silently.
C8_GroupWarnsEveryUnresolved ==
    ultimo.op = "remover_grupo_simultaneo" => ultimo.avisos = ultimo.ignorados

\* C9: a grouped request none of whose identifiers resolves returns the error
\* result and changes nothing.
C9_EmptyGroupIsError ==
    /\ \A lista \in {l \in ListasPedidas :
                        \A k \in 1 .. Len(l) : NaoResolve(grafo, l[k])} :
         /\ remover_grupo_simultaneo(Self, lista).erro
         /\ remover_grupo_simultaneo(Self, lista).exc = ""
         /\ remover_grupo_simultaneo(Self, lista).self = Self
    /\ (ultimo.op = "remover_grupo_simultaneo" /\ ultimo.erro)
          => passo_atual = ultimo.antes /\ Len(historico_extincoes) = ultimo.antes
C9_Witness ==
    /\ ultimo.op = "remover_grupo_simultaneo"
    /\ ultimo.erro
    /\ ultimo.ignorados > 0
    /\ passo_atual > 0

\* C10: reset() gives back the state of construction: the working graph equal
\* to the snapshot, every node 'vivo', empty histories, step counter 0, the same
\* basal set, robustness and diet loss as at construction; a second reset
\* changes nothing more, and the snapshot is the one the simulation was built on
\* whatever was removed from the working graph.
C10_ResetRestores ==
    /\ grafo_original = inicial.grafo_original
    /\ reset(Self) = inicial
    /\ reset(reset(Self)) = reset(Self)
    /\ ultimo.op = "reset" =>
         /\ Self = inicial
         /\ grafo = grafo_original
         /\ estados_nos = [n \in DOMAIN estados_nos |-> "vivo"]
         /\ historico_estados = <<>> /\ historico_extincoes = <<>>
         /\ passo_atual = 0
         /\ get_robustez(Self) = get_robustez(inicial)
         /\ calcular_perda_dieta(Self) = calcular_perda_dieta(inicial)
C10_Witness ==
    /\ ultimo.op = "reset"
    /\ ultimo.antes = MaxPasso
    /\ vcount(grafo) > 1

\* C11: in every reachable state get_vulnerabilidade_ranking leaves the
\* caller's working graph, node-state table, basal set, state history, event
\* log and step counter (and the original graph) exactly as they were
C11_RankerReadOnly == get_vulnerabilidade_ranking(Self).self = Self
\* the ranker ran on a simulation that already removed something, and one of
\* its scratch simulations cascaded
C11_Witness ==
    /\ ultimo.op = "get_vulnerabilidade_ranking"
    /\ passo_atual >= 1
    /\ \E i \in DOMAIN ultimo.ranking : ultimo.ranking[i].tamanho >= 2

\* position in the working graph of the vertex a ranking pair names
PosicaoNoGrafo(nome) ==
    CHOOSE k \in 1 .. vcount(grafo) :
        nome = IF grafo.named THEN grafo.vs[k] ELSE int_key(k - 1)
\* C12: the ranking holds exactly one (identity, cascade size) pair per vertex
\* of the working graph, in non-increasing order of size, pairs of equal size
\* in the order of their vertices in the working graph
C12_RankingOrder ==
    ultimo.op = "get_vulnerabilidade_ranking" =>
        LET R == ultimo.ranking
            P == pontuacoes_vulnerabilidade(Self)
        IN /\ Len(R) = vcount(grafo)
           /\ {R[i] : i \in DOMAIN R} = {P[k] : k \in DOMAIN P}
           /\ {R[i].nome : i \in DOMAIN R}
                = {IF grafo.named THEN grafo.vs[k] ELSE int_key(k - 1) :
                     k \in 1 .. vcount(grafo)}
           /\ \A i, j \in DOMAIN R :
                 i < j => \/ R[i].tamanho > R[j].tamanho
                          \/ /\ R[i].tamanho = R[j].tamanho
                             /\ PosicaoNoGrafo(R[i].nome) < PosicaoNoGrafo(R[j].nome)
\* a ranking the sort had to reorder, with two pairs of equal size in it
C12_Witness ==
    /\ ultimo.op = "get_vulnerabilidade_ranking"
    /\ ultimo.ranking # pontuacoes_vulnerabilidade(Self)
    /\ \E i, j \in DOMAIN ultimo.ranking :
          i < j /\ ultimo.ranking[i].tamanho = ultimo.ranking[j].tamanho

\* the vertices the last call deleted from the working graph
Apagados == ultimo.vivos_antes \ NoGrafo(grafo)
\* position in the original graph of the vertex with handle h
PosicaoOriginal(h) == CHOOSE k \in 1 .. vcount(grafo_original) : grafo_original.vs[k] = h
\* the identity the constructor gave the vertex with handle h
IdentidadeOriginal(h) == nome_de(grafo_original, PosicaoOriginal(h) - 1)

\* C13: the event of a completed removal is accurate: the identities in its
\* primary and secondary fields are listed once each and (on named graphs)
\* are exactly the vertices the call deleted; extincoes_totais is the number
\* of primaries plus the number of secondaries and is the node count before
\* minus restantes; restantes is the node count after
C13_EventAccuracy ==
    RemocaoCompleta =>
        LET ev == ultimo.evento
            listados == ev.extincao_primaria \o ev.extincoes_secundarias
        IN /\ Cardinality({listados[i] : i \in DOMAIN listados}) = Len(listados)
           /\ grafo.named => {listados[i] : i \in DOMAIN listados} = Apagados
           /\ ev.extincoes_totais
                = Len(ev.extincao_primaria) + Len(ev.extincoes_secundarias)
           /\ ev.extincoes_totais = Cardinality(ultimo.vivos_antes) - ev.restantes
           /\ ev.restantes = vcount(grafo)

\* C14: after a call that returned, a vertex still in the working graph is
\* 'afetado' exactly when its total degree is below its total degree in the
\* original graph, and 'vivo' otherwise
C14_AffectedIffLostEdge ==
    ultimo.exc = "" =>
        \A k \in 1 .. vcount(grafo) :
            LET h == grafo.vs[k]
            IN dict_get(estados_nos, IdentidadeOriginal(h))
                 = IF degree(grafo, k - 1)
                        < degree(grafo_original, PosicaoOriginal(h) - 1)
                   THEN "afetado" ELSE "vivo"

\* C15: the identity the code reads for a vertex of the working graph is the
\* identity the constructor gave that vertex, and the node-state table has
\* the entries the constructor created and no other
C15_StableIdentity ==
    /\ \A k \in 1 .. vcount(grafo) :
          nome_de(grafo, k - 1) = IdentidadeOriginal(grafo.vs[k])
    /\ DOMAIN estados_nos = DOMAIN inicial.estados_nos

\* C16: no step other than reset puts a vertex into the working graph, and a
\* removal call that resolved at least one target leaves strictly fewer
\* vertices than it found
C16_NodeCountMonotone ==
    [][/\ ultimo'.op # "reset" => NoGrafo(grafo') \subseteq NoGrafo(grafo)
       /\ ultimo'.op # "reset" => vcount(grafo') <= vcount(grafo)
       /\ (/\ ultimo'.op \in {"remove_especie", "remover_grupo_simultaneo"}
           /\ ultimo'.resolvidos >= 1) => vcount(grafo') < vcount(grafo)]_vars

\* C17: the cascade loop of a completed removal made no more passes than the
\* call deleted vertices, hence no more than the original graph has vertices
C17_CascadeRoundsBounded ==
    RemocaoCompleta =>
        /\ ultimo.rodadas <= Cardinality(Apagados)
        /\ ultimo.rodadas <= vcount(grafo_original)
\* a cascade of more than one pass on a food web with the cycle A <-> B and
\* the self-loop C -> C
C17_Witness ==
    /\ RemocaoCompleta
    /\ ultimo.rodadas >= 2
    /\ {<<"A", "B">>, <<"B", "A">>, <<"C", "C">>} \subseteq grafo_original.es

\* the food web with the edges A -> C and B -> C only: two prey (P1, P2) of
\* one predator (X)
DoisProdutores ==
    [named |-> TRUE, vs |-> <<"A", "B", "C">>,
     es |-> {<<"A", "C">>, <<"B", "C">>}]
\* the last call was remover_grupo_simultaneo([P1, P2]) on a fresh simulation
\* of that food web
C18_GroupOfBothPrey ==
    /\ grafo_original = DoisProdutores
    /\ ultimo.op = "remover_grupo_simultaneo"
    /\ ultimo.antes = 0
    /\ ultimo.exc = ""
    /\ ultimo.resolvidos = 2
    /\ ultimo.ignorados = 0
    /\ {ultimo.evento.extincao_primaria[i] :
            i \in DOMAIN ultimo.evento.extincao_primaria} = {"A", "B"}
\* C18: on the food web P1 -> X, P2 -> X, remover_grupo_simultaneo([P1, P2])
\* on a fresh simulation removes both as primaries and X as secondary in the
\* same call, and appends one event with 2 primaries, 1 secondary, 3 in
\* total and 0 remaining
C18_GroupedScenario ==
    C18_GroupOfBothPrey =>
        LET ev == ultimo.evento
        IN /\ ev.extincao_primaria \in {<<"A", "B">>, <<"B", "A">>}
           /\ ev.extincoes_secundarias = <<"C">>
           /\ ev.extincoes_totais = 3
           /\ ev.restantes = 0
           /\ vcount(grafo) = 0
           /\ historico_extincoes = <<ev>>
           /\ passo_atual = 1
           /\ estados_nos = [n \in {"A", "B", "C"} |->
                               IF n = "C" THEN "extinto_secundario"
                               ELSE "extinto_primario"]

\* the last call was remove_especie(P1) on a fresh simulation of the food web
\* P1 -> X, P2 -> X, for P1 = A or P1 = B
C19_RemovedOnePrey ==
    /\ grafo_original = DoisProdutores
    /\ ultimo.op = "remove_especie"
    /\ ultimo.antes = 0
    /\ ultimo.exc = ""
    /\ ultimo.evento.extincao_primaria \in {<<"A">>, <<"B">>}
\* C19: on the food web P1 -> X, P2 -> X, remove_especie(P1) on a fresh
\* simulation leaves X in the working graph with in-degree 1 and status
\* 'afetado', diet loss 0.5 for X, and P2 in the graph with status 'vivo'
C19_PartialDietScenario ==
    C19_RemovedOnePrey =>
        LET P1 == ultimo.evento.extincao_primaria[1]
            P2 == IF P1 = "A" THEN "B" ELSE "A"
        IN /\ grafo.vs = <<P2, "C">>
           /\ grafo.es = {<<P2, "C">>}
           /\ indegree(grafo, find_name(grafo, "C")) = 1
           /\ estados_nos["C"] = "afetado"
           /\ estados_nos[P2] = "vivo"
           /\ estados_nos[P1] = "extinto_primario"
           /\ ultimo.evento.extincoes_secundarias = <<>>
           /\ calcular_perda_dieta(Self) = [n \in {"C"} |-> 500]

\* what get_robustez returns in a state: the node count of the working graph
\* over the node count of the original graph, 0 when the original graph is
\* empty; 1 right after construction or reset of a non-empty graph; 0 once
\* the working graph is empty
C20_Valor ==
    LET r == get_robustez(Self)
    IN /\ r.den > 0
       /\ vcount(grafo_original) > 0
            => r.num * vcount(grafo_original) = vcount(grafo) * r.den
       /\ vcount(grafo_original) = 0 => r.num = 0
       /\ vcount(grafo) = 0 => r.num = 0
       /\ (ultimo.op \in {"__init__", "reset"} /\ vcount(grafo_original) > 0)
            => r.num = r.den
\* C20: get_robustez returns that value in every state and changes no field;
\* the value never increases across a removal operation
C20_Robustez ==
    [][/\ C20_Valor
       /\ C20_Valor'
       /\ ultimo'.op = "get_robustez"
            => UNCHANGED campos /\ ultimo'.robustez = get_robustez(Self)
       /\ ultimo'.op \in {"remove_especie", "remover_grupo_simultaneo"}
            => get_robustez(Self)'.num * get_robustez(Self).den
                 <= get_robustez(Self).num * get_robustez(Self)'.den]_vars
\* get_robustez returned a value strictly between 0 and 1 after a removal
C20_Witness ==
    /\ ultimo.op = "get_robustez"
    /\ passo_atual = 1
    /\ 0 < ultimo.robustez.num
    /\ ultimo.robustez.num < ultimo.robustez.den

\* in-degree of the vertex with handle h in the graph g
GrauDeEntrada(g, h) == Cardinality({e \in g.es : e[2] = h})
\* C21: in every state, a vertex of the working graph that
\* calcular_perda_dieta reports has the value 1 - (its current in-degree / its
\* original in-degree) rounded to 3 digits, 0 when its original in-degree is
\* 0; the value is in [0, 1] and the current in-degree is at most the original
C21_DietLossValues ==
    LET perdas == calcular_perda_dieta(Self)
    IN \A k \in 1 .. vcount(grafo) :
         LET h == grafo.vs[k]
             nome == nome_de(grafo, k - 1)
             atual == GrauDeEntrada(grafo, h)
             original == GrauDeEntrada(grafo_original, h)
         IN nome \in DOMAIN perdas =>
              /\ atual <= original
              /\ 0 <= perdas[nome] /\ perdas[nome] <= 1000
              /\ IF original = 0 THEN perdas[nome] = 0
                 ELSE /\ 2 * (perdas[nome] * original - 1000 * (original - atual))
                           <= original
                      /\ 2 * (1000 * (original - atual) - perdas[nome] * original)
                           <= original

\* C22: in every state the keys of the map calcular_perda_dieta returns are
\* the identities of the vertices that are in the working graph and not in
\* the basal set, and the call changes no field
C22_DietLossDomain ==
    [][/\ DOMAIN calcular_perda_dieta(Self)
            = {IdentidadeOriginal(h) : h \in NoGrafo(grafo)} \ especies_basais
       /\ ultimo'.op = "calcular_perda_dieta"
            => /\ UNCHANGED campos
               /\ ultimo'.perdas = calcular_perda_dieta(Self)]_vars

\* the state history, the event log and the step counter agree, and the i-th
\* event carries step number i
Contagem ==
    /\ Len(historico_estados) = passo_atual
    /\ Len(historico_extincoes) = passo_atual
    /\ \A i \in DOMAIN historico_extincoes : historico_extincoes[i].passo = i
\* C23: in every state the number of snapshots, the number of events and the
\* step counter are equal and the events are numbered 1, 2, 3, ...; a removal
\* that completes adds one to the three, a removal that fails or resolves
\* nothing adds nothing, simular_sequencia adds one per removal that
\* succeeded, and the three are 0 after construction and reset
C23_HistoryBookkeeping ==
    [][/\ Contagem
       /\ Contagem'
       /\ ultimo.op = "__init__" => passo_atual = 0
       /\ ultimo'.op = "reset" => passo_atual' = 0
       /\ ultimo'.op \in {"remove_especie", "remover_grupo_simultaneo"}
            => passo_atual' = IF ultimo'.exc = "" /\ ~ultimo'.erro
                              THEN passo_atual + 1 ELSE passo_atual
       /\ ultimo'.op = "simular_sequencia"
            => passo_atual' = passo_atual + ultimo'.resolvidos
       /\ ultimo'.op \in {"get_vulnerabilidade_ranking", "get_robustez",
                           "calcular_perda_dieta"}
            => passo_atual' = passo_atual]_vars
\* a sequence with one entry that failed and one that succeeded: the event of
\* the one that succeeded carries number 1
C23_Witness ==
    /\ ultimo.op = "simular_sequencia"
    /\ ultimo.avisos = 1
    /\ ultimo.resolvidos = 1
    /\ passo_atual = 1
    /\ historico_extincoes[1].passo = 1

\* s is a prefix of t
Prefixo(s, t) == Len(s) <= Len(t) /\ SubSeq(t, 1, Len(s)) = s
\* C24: a removal operation leaves every event and every snapshot recorded
\* before it as it was and only appends to the two lists
C24_AppendOnlyHistory ==
    [][ultimo'.op \in {"remove_especie", "remover_grupo_simultaneo",
                       "simular_sequencia"}
         => /\ Prefixo(historico_extincoes, historico_extincoes')
            /\ Prefixo(historico_estados, historico_estados')]_vars
\* a second removal changed the table and the first snapshot is still there
C24_Witness ==
    /\ RemocaoCompleta
    /\ passo_atual = 2
    /\ historico_estados[1] # historico_estados[2]
    /\ historico_estados[2] = estados_nos

\* the handles of the basal vertices of the working graph that the request
\* names, as the resolution code of the two operations reads the request
AlvosBasais(indices_pedidos) ==
    {h \in {grafo.vs[i + 1] : i \in indices_pedidos} :
       IdentidadeOriginal(h) \in especies_basais}
\* after a completed call that left the object as depois, the basal vertices
\* among its targets are out of the working graph and extinto_primario
BasaisRemovidos(alvos, depois) ==
    \A h \in alvos :
        /\ h \notin NoGrafo(depois.grafo)
        /\ depois.estados_nos[IdentidadeOriginal(h)] = "extinto_primario"
\* C25: a call of remove_especie or remover_grupo_simultaneo that names a
\* vertex of the basal set and completes leaves that vertex out of the working
\* graph and with status extinto_primario
C25_BasalPrimaryRemoval ==
    (Pronto /\ passo_atual < MaxPasso) =>
        /\ \A ident \in Identificadores :
             LET r == remove_especie(Self, ident)
             IN r.exc = "" =>
                  BasaisRemovidos(AlvosBasais({resolver_especie(grafo, ident)}),
                                  r.self)
        /\ \A lista \in ListasPedidas :
             LET r == remover_grupo_simultaneo(Self, lista)
                 pedidos == resolver_grupo(grafo, lista, <<>>, <<>>, <<>>).vertices
             IN (r.exc = "" /\ ~r.erro) =>
                  BasaisRemovidos(AlvosBasais({pedidos[k] : k \in DOMAIN pedidos}),
                                  r.self)

\* C26: no step of the engine changes the vertices or the edges of
\* grafo_original, and every scratch simulation of the ranker, whose original
\* snapshot is the caller's working graph, ends with that snapshot as it was
C26_SnapshotImmutable ==
    [][/\ grafo_original' = grafo_original
       /\ grafo_original' = inicial.grafo_original
       /\ ultimo'.op = "get_vulnerabilidade_ranking" =>
            \A k \in indices(grafo) :
                remove_especie(construtor(grafo), Indice(k)).self.grafo_original
                  = grafo]_vars
\* the ranker has run on a simulation whose working graph has lost vertices
C26_Witness ==
    /\ ultimo.op = "get_vulnerabilidade_ranking"
    /\ passo_atual = 1
    /\ vcount(grafo) > 0
    /\ vcount(grafo) < vcount(grafo_original)
    /\ ultimo.ranking # <<>>

C28_IndependentRuns ==
    [][/\ (sims_temp' # sims_temp \/ concluidos' # concluidos) => UNCHANGED campos
       /\ \A j \in DOMAIN concluidos' :
            /\ concluidos'[j].nome
                 = pontuacoes_vulnerabilidade(Self)[concluidos'[j].indice + 1].nome
            /\ concluidos'[j].tamanho
                 = pontuacoes_vulnerabilidade(Self)[concluidos'[j].indice + 1].tamanho
            /\ concluidos'[j].tamanho
                 = remove_especie(construtor(grafo),
                                  Indice(concluidos'[j].indice)).evento.extincoes_totais
       /\ ultimo'.op = "get_vulnerabilidade_ranking"
            => ultimo'.ranking = get_vulnerabilidade_ranking(Self).ranking]_vars
\* after one removal, two scratch simulations are built and waiting, one of
\* them for a vertex of lower index than the vertex whose run has already
\* ended with a cascade of two or more
C28_Witness ==
    /\ Cardinality(DOMAIN sims_temp) >= 2
    /\ Len(concluidos) >= 1
    /\ \E k \in DOMAIN sims_temp : k < concluidos[1].indice
    /\ concluidos[1].tamanho >= 2
    /\ passo_atual = 1

\* the sum of the numbers of secondary extinctions of the logged events
RECURSIVE SomaDasSecundarias(_)
SomaDasSecundarias(historico) ==
    IF historico = <<>> THEN 0
    ELSE Len(Head(historico).extincoes_secundarias) + SomaDasSecundarias(Tail(historico))
\* C29: get_resumo returns without raising, and in the summary total_steps is
\* the number of completed operations, total_secondary_extinctions is the sum
\* of the secondary-extinction counts of the logged events and
\* total_extinctions is original_species_count - remaining_species_count
C29_Summary ==
    ultimo.op = "get_resumo" =>
        /\ ultimo.exc = ""
        /\ ultimo.resumo.total_steps = passo_atual
        /\ ultimo.resumo.total_steps = Len(historico_extincoes)
        /\ ultimo.resumo.total_secondary_extinctions
             = SomaDasSecundarias(historico_extincoes)
        /\ ultimo.resumo.original_species_count = vcount(grafo_original)
        /\ ultimo.resumo.remaining_species_count = vcount(grafo)
        /\ ultimo.resumo.total_extinctions
             = vcount(grafo_original) - vcount(grafo)

\* C30: a call of plotar_cascata with salvar_dir that follows reset() and
\* returns, returns as many paths as 1 plus the number of entries that
\* historico_estados has after the call
C30_CascadePlotCount ==
    [][(/\ ultimo.op = "reset"
        /\ ultimo'.op = "plotar_cascata"
        /\ ultimo'.exc = "")
          => ultimo'.caminhos = 1 + Len(historico_estados')]_vars

\* the number of edges of the edge list from origem to destino
Multiplicidade(arestas, origem, destino) ==
    Cardinality({i \in DOMAIN arestas : arestas[i] = <<origem, destino>>})
\* C31: for a directed graph the graph returned has the vertices of the input,
\* exactly one edge for every ordered (origem, destino) pair that had at least
\* one edge in the input and no edge for any other pair; the input graph is
\* as it was read; and the function applied to its own output removes nothing
C31_EdgeDeduplication ==
    (limpeza.lido.directed /\ limpeza.passadas >= 1) =>
        /\ limpeza.grafo_limpo.vcount = limpeza.lido.vcount
        /\ limpeza.grafo_limpo.directed
        /\ \A origem, destino \in 0 .. limpeza.lido.vcount - 1 :
             Multiplicidade(limpeza.grafo_limpo.arestas, origem, destino)
               = IF Multiplicidade(limpeza.lido.arestas, origem, destino) >= 1
                 THEN 1 ELSE 0
        /\ \A i \in DOMAIN limpeza.grafo_limpo.arestas :
             /\ limpeza.grafo_limpo.arestas[i][1] \in 0 .. limpeza.lido.vcount - 1
             /\ limpeza.grafo_limpo.arestas[i][2] \in 0 .. limpeza.lido.vcount - 1
        /\ limpeza.grafo_original = limpeza.lido
        /\ limpeza.passadas = 2 => limpeza.removidas = 0
        /\ limpar_arestas_duplicadas(limpeza.grafo_limpo).grafo_limpo
             = limpeza.grafo_limpo
\* the second pass over a graph read with an edge three times over and both
\* directions between two vertices
C31_Witness ==
    /\ limpeza.passadas = 2
    /\ limpeza.lido.directed
    /\ Multiplicidade(limpeza.lido.arestas, 0, 1) = 3
    /\ Multiplicidade(limpeza.lido.arestas, 1, 0) = 1
    /\ Len(limpeza.grafo_limpo.arestas) = 2

\* the vertices (handles) of the working graph g outside the set fora that
\* are not basal and have no prey left outside fora
SemPresas(g, fora) ==
    {h \in NoGrafo(g) \ fora :
        /\ IdentidadeOriginal(h) \notin especies_basais
        /\ ~\E e \in g.es : e[2] = h /\ e[1] \notin fora}
\* the scan round, counted from k, in which the vertex h reaches in-degree 0
\* once the vertices of fora are gone; 0 when it never does
RECURSIVE RodadaDe(_, _, _, _)
RodadaDe(g, h, fora, k) ==
    IF h \in SemPresas(g, fora) THEN k
    ELSE IF SemPresas(g, fora) = {} THEN 0
    ELSE RodadaDe(g, h, fora \cup SemPresas(g, fora), k + 1)
\* the vertex of the original graph whose identity is id, "" when there is none
VerticeDe(id) ==
    IF \E h \in NoGrafo(grafo_original) : IdentidadeOriginal(h) = id
    THEN CHOOSE h \in NoGrafo(grafo_original) : IdentidadeOriginal(h) = id
    ELSE ""
\* the event ev of a call whose request resolved to the vertices alvos of the
\* working graph lists its secondary extinctions in cascade order
OrdemDeCascata(alvos, ev) ==
    LET sec == ev.extincoes_secundarias
        listados == ev.extincao_primaria \o sec
        rodada(i) == RodadaDe(grafo, VerticeDe(sec[i]), alvos, 1)
        posicao(i) == CHOOSE k \in 1 .. vcount(grafo) : grafo.vs[k] = VerticeDe(sec[i])
    IN /\ Cardinality({listados[i] : i \in DOMAIN listados}) = Len(listados)
       /\ \A i \in DOMAIN sec :
            /\ VerticeDe(sec[i]) \in NoGrafo(grafo) \ alvos
            /\ rodada(i) >= 1
       /\ \A i, j \in DOMAIN sec :
            i < j => \/ rodada(i) < rodada(j)
                     \/ rodada(i) = rodada(j) /\ posicao(i) < posicao(j)
\* C32: in the event of every completed removal the secondary list is in
\* cascade order: a vertex that reached in-degree 0 in an earlier scan round
\* comes before every vertex that reached it in a later round, vertices of one
\* round come in the order of their positions in the working graph, and no
\* identity is listed twice or in both the primary and the secondary field
C32_CascadeOrder ==
    (Pronto /\ passo_atual < MaxPasso) =>
        /\ \A ident \in Identificadores :
             \A r \in {remove_especie(Self, ident)} :
                r.exc = "" =>
                  OrdemDeCascata({grafo.vs[resolver_especie(grafo, ident) + 1]},
                                 r.evento)
        /\ \A lista \in ListasPedidas :
             \A r \in {remover_grupo_simultaneo(Self, lista)} :
                (r.exc = "" /\ ~r.erro) =>
                  LET pedidos == resolver_grupo(grafo, lista, <<>>, <<>>, <<>>).vertices
                  IN OrdemDeCascata({grafo.vs[pedidos[k] + 1] : k \in DOMAIN pedidos},
                                    r.evento)

\* the simulation when the turn of entry i + 1 of the sequence comes: every
\* earlier entry that named a vertex of the working graph at its own turn has
\* been removed by remove_especie, the others have changed nothing
RECURSIVE NaVezDe(_, _, _)
NaVezDe(self, sequencia, i) ==
    IF i = 0 THEN self
    ELSE LET antes == NaVezDe(self, sequencia, i - 1)
         IN IF NaoResolve(antes.grafo, sequencia[i]) THEN antes
            ELSE remove_especie(antes, sequencia[i]).self
\* the entries of the sequence from i on that name no vertex at their turn,
\* and the events of the others
RECURSIVE Pulados(_, _, _)
Pulados(self, sequencia, i) ==
    IF i > Len(sequencia) THEN <<>>
    ELSE (IF NaoResolve(NaVezDe(self, sequencia, i - 1).grafo, sequencia[i])
          THEN <<sequencia[i]>> ELSE <<>>) \o Pulados(self, sequencia, i + 1)
RECURSIVE EventosDe(_, _, _)
EventosDe(self, sequencia, i) ==
    IF i > Len(sequencia) THEN <<>>
    ELSE (IF NaoResolve(NaVezDe(self, sequencia, i - 1).grafo, sequencia[i])
          THEN <<>>
          ELSE <<remove_especie(NaVezDe(self, sequencia, i - 1), sequencia[i]).evento>>)
         \o EventosDe(self, sequencia, i + 1)
\* C33: simular_sequencia(L) removes the entries of L in order with
\* remove_especie; an entry that names no vertex of the working graph when its
\* turn comes is skipped with a warning and changes nothing, and the entries
\* after it are still processed; the list returned holds one event per removal
\* that succeeded, in order, with consecutive step numbers
C33_SequenceRemoval ==
    Pronto =>
        \A sequencia \in {l \in ListasPedidas : passo_atual + Len(l) <= MaxPasso} :
            \A r \in {simular_sequencia(Self, sequencia)} :
                /\ r.self = NaVezDe(Self, sequencia, Len(sequencia))
                /\ r.avisos = Pulados(Self, sequencia, 1)
                /\ r.resultados = EventosDe(Self, sequencia, 1)
                /\ Len(r.resultados) + Len(r.avisos) = Len(sequencia)
                /\ \A k \in DOMAIN r.resultados :
                     /\ r.resultados[k].passo = passo_atual + k
                     /\ r.resultados[k] = r.self.historico_extincoes[passo_atual + k]
                /\ Len(r.self.historico_extincoes) = passo_atual + Len(r.resultados)
\* the sequence [A, B] on a fresh simulation where B goes extinct in the
\* cascade of A: B is skipped and the one event is the removal of A
C33_Witness ==
    /\ ultimo.op = "simular_sequencia"
    /\ ultimo.antes = 0
    /\ ultimo.pulados = <<Nome("B")>>
    /\ ultimo.resolvidos = 1
    /\ historico_extincoes[1].extincao_primaria = <<"A">>
    /\ "B" \in {historico_extincoes[1].extincoes_secundarias[i] :
                   i \in DOMAIN historico_extincoes[1].extincoes_secundarias}

C35_TableGraphConsistency ==
    ultimo.exc = "" =>
        /\ \A h \in NoGrafo(grafo_original) :
             h \in NoGrafo(grafo)
               <=> dict_get(estados_nos, IdentidadeOriginal(h)) \in {"vivo", "afetado"}
        /\ Cardinality({n \in DOMAIN estados_nos : estados_nos[n] \in Extintos})
             = vcount(grafo_original) - vcount(grafo)
        /\ DOMAIN estados_nos
             = {IdentidadeOriginal(h) : h \in NoGrafo(grafo_original)}

\* every non-basal vertex of S has a prey in S (g is the working graph)
Fechado(g, S) ==
    \A h \in S :
        IdentidadeOriginal(h) \notin especies_basais
          => \E e \in g.es : e[2] = h /\ e[1] \in S
\* the largest closed set of vertices of g outside the set fora
MaiorFechado(g, fora) ==
    CHOOSE S \in SUBSET (NoGrafo(g) \ fora) :
        /\ Fechado(g, S)
        /\ \A T \in SUBSET (NoGrafo(g) \ fora) : Fechado(g, T) => T \subseteq S
\* C36: a completed removal whose request resolved to the set P of vertices of
\* the working graph leaves in the working graph the largest set S of the
\* other vertices in which every non-basal vertex has a prey in S
C36_GreatestClosedSet ==
    (Pronto /\ passo_atual < MaxPasso) =>
        /\ \A ident \in Identificadores :
             \A r \in {remove_especie(Self, ident)} :
                r.exc = "" =>
                  NoGrafo(r.self.grafo)
                    = MaiorFechado(grafo, {grafo.vs[resolver_especie(grafo, ident) + 1]})
        /\ \A lista \in ListasPedidas :
             \A r \in {remover_grupo_simultaneo(Self, lista)} :
                (r.exc = "" /\ ~r.erro) =>
                  LET pedidos == resolver_grupo(grafo, lista, <<>>, <<>>, <<>>).vertices
                  IN NoGrafo(r.self.grafo)
                       = MaiorFechado(grafo, {grafo.vs[pedidos[k] + 1] : k \in DOMAIN pedidos})

\* the lists of distinct names of vertices of the working graph
ListasDeNomesDistintos ==
    {l \in Listas({Nome(grafo.vs[k]) : k \in 1 .. vcount(grafo)}, MaxReq) :
        \A i, j \in DOMAIN l : i # j => l[i] # l[j]}
\* the lists that hold the entries of l in some order
Ordenacoes(l) ==
    {m \in ListasDeNomesDistintos :
        Len(m) = Len(l) /\ {m[i] : i \in DOMAIN m} = {l[i] : i \in DOMAIN l}}
\* C37: on a simulation of a named graph just constructed or reset, for every
\* list L of distinct names of its vertices and every ordering of L, the
\* vertices remover_grupo_simultaneo(L) leaves in the working graph are the
\* vertices simular_sequencia leaves there
C37_SimultaneousVersusSequential ==
    (ultimo.op \in {"__init__", "reset"} /\ grafo.named) =>
        \A L \in ListasDeNomesDistintos :
            \A grupo \in {remover_grupo_simultaneo(Self, L)} :
                \A ordem \in Ordenacoes(L) :
                    NoGrafo(grupo.self.grafo)
                      = NoGrafo(simular_sequencia(Self, ordem).self.grafo)
\* the grouped removal of [A, B] on a fresh simulation of a food web where B
\* and then C go extinct in the cascade of A: the sequence [A, B] skips B and
\* the sequence [B, A] removes both
C37_Witness ==
    /\ ultimo.op = "remover_grupo_simultaneo"
    /\ ultimo.antes = 0
    /\ grafo.named
    /\ ultimo.evento.extincao_primaria = <<"A", "B">>
    /\ "C" \in {ultimo.evento.extincoes_secundarias[i] :
                   i \in DOMAIN ultimo.evento.extincoes_secundarias}
    /\ simular_sequencia(inicial, <<Nome("A"), Nome("B")>>).avisos = <<Nome("B")>>
    /\ simular_sequencia(inicial, <<Nome("B"), Nome("A")>>).avisos = <<>>
    /\ NoGrafo(simular_sequencia(inicial, <<Nome("B"), Nome("A")>>).self.grafo)
         = NoGrafo(grafo)
====
